---- MODULE Spec2Model ----
(***************************************************************************)
(* amdgpu_stats: discovery of AMD GPUs below /sys/class/drm, the per-card  *)
(* statistic accessors of utils.py, the package entry point of            *)
(* __init__.py and the timer-driven script gpustats.py.                    *)
(*                                                                         *)
(* Text is a tuple of one-character strings, so that strip() and int()    *)
(* are computed.  A path is a record [dir, file]: dir is the tuple that    *)
(* str.split('/') gives for the directory ("" first, for the leading       *)
(* slash), file is the base name cut into the pieces that the glob         *)
(* patterns and split('_') of the code tell apart.                         *)
(***************************************************************************)
EXTENDS Integers, Sequences, FiniteSets, TLC

(***************************************************************************)
(* Bounds of the model.                                                    *)
(***************************************************************************)
\* how many times the kernel side changes the monitoring files in one run
MaxFsChanges == 1
\* how many ticks the timers of the script fire in one run
MaxTicks == 2

(***************************************************************************)
(* Text: str.strip() and int().                                            *)
(***************************************************************************)
Whitespace == {" ", "\n", "\t"}
Digits == {"0", "1", "2", "3", "4", "5", "6", "7", "8", "9"}

DigitVal(c) ==
    CASE c = "0" -> 0 [] c = "1" -> 1 [] c = "2" -> 2 [] c = "3" -> 3
      [] c = "4" -> 4 [] c = "5" -> 5 [] c = "6" -> 6 [] c = "7" -> 7
      [] c = "8" -> 8 [] c = "9" -> 9

RECURSIVE LStrip(_)
LStrip(s) ==
    IF s # <<>> /\ Head(s) \in Whitespace THEN LStrip(Tail(s)) ELSE s

RECURSIVE RStrip(_)
RStrip(s) ==
    IF s # <<>> /\ s[Len(s)] \in Whitespace
    THEN RStrip(SubSeq(s, 1, Len(s) - 1))
    ELSE s

\* str.strip(): leading and trailing whitespace removed
Strip(s) == RStrip(LStrip(s))

RECURSIVE DigitsValue(_, _)
DigitsValue(s, acc) ==
    IF s = <<>> THEN acc ELSE DigitsValue(Tail(s), 10 * acc + DigitVal(Head(s)))

AllDigits(s) == s # <<>> /\ \A i \in 1..Len(s) : s[i] \in Digits

\* int(text): surrounding whitespace and one sign are accepted, everything
\* else raises ValueError
IntOk(s) ==
    LET t == Strip(s)
    IN  /\ t # <<>>
        /\ IF Head(t) \in {"-", "+"} THEN AllDigits(Tail(t)) ELSE AllDigits(t)

IntOf(s) ==
    LET t == Strip(s)
    IN  IF Head(t) = "-" THEN 0 - DigitsValue(Tail(t), 0)
        ELSE IF Head(t) = "+" THEN DigitsValue(Tail(t), 0)
        ELSE DigitsValue(t, 0)

(***************************************************************************)
(* The monitoring namespace.                                               *)
(***************************************************************************)
Cards == {"card0", "card1"}
\* hwmon instances are numbered over the whole host
HwmonsOf(card) == IF card = "card0" THEN {"hwmon0", "hwmon1"} ELSE {"hwmon2"}

DrmRoot == <<"", "sys", "class", "drm">>
CardDir(card) == DrmRoot \o <<card>>
DeviceDir(card) == CardDir(card) \o <<"device">>
HwmonDir(card, hw) == DeviceDir(card) \o <<"hwmon", hw>>
HwmonDirs == UNION {{HwmonDir(c, h) : h \in HwmonsOf(c)} : c \in Cards}

\* os.path.join(dir, file), os.path.dirname, os.path.basename
Join(dir, file) == [dir |-> dir, file |-> file]
Dirname(p) == p.dir
Basename(p) == p.file

NameFile == <<"name">>
PowerCap == <<"power1", "_", "cap">>
PowerAverage == <<"power1", "_", "average">>
PowerCapMax == <<"power1", "_", "cap", "_", "max">>
PowerCapDefault == <<"power1", "_", "cap", "_", "default">>
Freq1Input == <<"freq1", "_", "input">>
Freq2Input == <<"freq2", "_", "input">>
In0Input == <<"in0", "_", "input">>
Fan1Input == <<"fan1", "_", "input">>
Fan1Target == <<"fan1", "_", "target">>
GpuBusyPercent == <<"gpu", "_", "busy", "_", "percent">>
TempNodes == {<<"temp", "1">>, <<"temp", "2">>}
TempLabel(node) == node \o <<"_", "label">>
TempInput(node) == node \o <<"_", "input">>

FixedStatFiles ==
    {PowerCap, PowerAverage, PowerCapMax, PowerCapDefault, Freq1Input,
     Freq2Input, In0Input, Fan1Input, Fan1Target}
TempFiles == {TempLabel(n) : n \in TempNodes} \cup {TempInput(n) : n \in TempNodes}

NamePaths == {Join(d, NameFile) : d \in HwmonDirs}
BusyPaths == {Join(DeviceDir(c), GpuBusyPercent) : c \in Cards}
HwmonStatPaths == {Join(d, f) : d \in HwmonDirs, f \in FixedStatFiles \cup TempFiles}
StatPaths == HwmonStatPaths \cup BusyPaths
AllPaths == NamePaths \cup StatPaths

\* the card a path lies under
CardOfPath(p) == p.dir[5]

\* a file that does not exist
Absent == <<"ENOENT">>

VARIABLES
    fs,             \* path -> text of the file, or Absent
    fsChanges,      \* number of changes of the namespace so far
    pc,             \* where the process is
    hwmon_names,    \* the list glob.glob returned to the discovery under way
    AMDGPU_CARDS,   \* utils.AMDGPU_CARDS: the registry, a dict in insertion order
    result,         \* what the accessor call under way gives its caller
    held,           \* the result of an earlier call that the caller kept
    sampling,       \* the sampler call that is between two of its reads
    exit,           \* how the process ended: the status and message of sys.exit
    CARD,           \* gpustats.py: the card find_card returned
    hwmon_dir,      \* gpustats.py: its hwmon directory
    temp_files,     \* gpustats.py: sensor name -> value file, found at startup
    fan_stats,      \* reactive value of MiscDisplay
    temp_stats,     \* reactive value of MiscDisplay
    core_vals,      \* reactive value of ClockDisplay
    micro_watts,    \* reactive value of PowerDisplay
    ticks,          \* number of timer callbacks run so far
    unhandled       \* the exception that left a timer callback, if any

utilsVars == <<hwmon_names, AMDGPU_CARDS, result, held, sampling>>
scriptVars == <<CARD, hwmon_dir, temp_files>>
widgetVars == <<fan_stats, temp_stats, core_vals, micro_watts, ticks, unhandled>>
vars == <<fs, fsChanges, pc, exit, utilsVars, scriptVars, widgetVars>>

Exists(p) == fs[p] # Absent

(***************************************************************************)
(* A Python dict: a tuple of [key, val] records in insertion order.  An    *)
(* assignment to a key that is present replaces its value in place.        *)
(***************************************************************************)
EmptyDict == <<>>
DictKeys(d) == [i \in 1..Len(d) |-> d[i].key]
DictKeySet(d) == {d[i].key : i \in 1..Len(d)}
DictHas(d, k) == \E i \in 1..Len(d) : d[i].key = k
DictGet(d, k) == d[CHOOSE i \in 1..Len(d) : d[i].key = k].val
DictSet(d, k, v) ==
    IF DictHas(d, k)
    THEN [i \in 1..Len(d) |-> IF d[i].key = k THEN [key |-> k, val |-> v] ELSE d[i]]
    ELSE Append(d, [key |-> k, val |-> v])

(***************************************************************************)
(* glob.glob: the existing paths that match the pattern, in the order the  *)
(* directory scans give them.  The order within a directory is not         *)
(* specified; the matches below one card directory come together.          *)
(***************************************************************************)
Perms(S) ==
    {f \in [1..Cardinality(S) -> S] : \A i, j \in 1..Cardinality(S) : f[i] = f[j] => i = j}

\* '/sys/class/drm/card*/device/hwmon/hwmon*/name'
HwmonNameMatches == {p \in NamePaths : Exists(p)}

GroupedByCard(order) ==
    \A i, j, k \in 1..Len(order) :
        (i < j /\ j < k /\ CardOfPath(order[i]) = CardOfPath(order[k]))
            => CardOfPath(order[j]) = CardOfPath(order[i])

HwmonNameOrders == {o \in Perms(HwmonNameMatches) : GroupedByCard(o)}

\* path.join(dir, "temp*_label")
IsTempLabelName(f) ==
    /\ Len(f) >= 3
    /\ Head(f) = "temp"
    /\ SubSeq(f, Len(f) - 1, Len(f)) = <<"_", "label">>

TempLabelMatches(dir) ==
    {p \in AllPaths : p.dir = dir /\ IsTempLabelName(p.file) /\ Exists(p)}

TempLabelOrders(dir) == Perms(TempLabelMatches(dir))

\* str.split('/')[i] of the whole path, i counted from 0
SplitSlash(p, i) == (p.dir \o <<p.file>>)[i + 1]

\* str.split('_')[0] of a base name
RECURSIVE SplitUnderscoreFirst(_)
SplitUnderscoreFirst(f) ==
    IF f = <<>> \/ Head(f) = "_" THEN <<>>
    ELSE <<Head(f)>> \o SplitUnderscoreFirst(Tail(f))

(***************************************************************************)
(* utils.find_cards                                                        *)
(***************************************************************************)
AmdgpuText == <<"a", "m", "d", "g", "p", "u">>

\* the test of line 38 on the text of a name file
\* a name that only starts with the driver's name
StartsWithAmdgpu(text) ==
    LET t == Strip(text)
    IN  Len(t) >= Len(AmdgpuText) /\ SubSeq(t, 1, Len(AmdgpuText)) = AmdgpuText

IsAmdgpuName(text) == Strip(text) = AmdgpuText

\* the body of the loop, lines 37-42
\* a step that keeps the first directory found for a card
FindCardsStepFirstWins(cards, hwmon_name_file) ==
    IF IsAmdgpuName(fs[hwmon_name_file])
       /\ ~DictHas(cards, SplitSlash(hwmon_name_file, 4))
    THEN DictSet(cards, SplitSlash(hwmon_name_file, 4), Dirname(hwmon_name_file))
    ELSE cards

FindCardsStep(cards, hwmon_name_file) ==
    IF IsAmdgpuName(fs[hwmon_name_file])
    THEN DictSet(cards, SplitSlash(hwmon_name_file, 4), Dirname(hwmon_name_file))
    ELSE cards

RECURSIVE FindCardsLoop(_, _)
FindCardsLoop(names, cards) ==
    IF names = <<>> THEN cards
    ELSE FindCardsLoop(Tail(names), FindCardsStep(cards, Head(names)))

\* find_cards(), with the enumeration that glob.glob returned
FindCards(names) == FindCardsLoop(names, EmptyDict)

(***************************************************************************)
(* What a call gives its caller: the exception that left it (exc = "" for  *)
(* a normal return), the message of the exception, the value returned and  *)
(* the files the call opened, in order.                                    *)
(***************************************************************************)
NoMsg == [form |-> "", card |-> "", keys |-> <<>>]
NoValue == <<>>

Returned(val, reads) == [exc |-> "", msg |-> NoMsg, val |-> val, reads |-> reads]
Raised(exc, msg, reads) == [exc |-> exc, msg |-> msg, val |-> NoValue, reads |-> reads]

\* open() of a missing file
FileNotFound(file) ==
    Raised("IOError", [form |-> "No such file or directory", card |-> "", keys |-> <<>>],
           <<file>>)
\* int() of text that is no integer
InvalidLiteral(reads) ==
    Raised("ValueError", [form |-> "invalid literal for int()", card |-> "", keys |-> <<>>],
           reads)

\* int(a / b) of Python for b > 0: the quotient cut towards zero
TruncDiv(a, b) == IF a >= 0 THEN a \div b ELSE 0 - ((0 - a) \div b)

\* read_stat whose power mode divides with // instead of int(... / ...)
ReadStatFlooring(file, stat_type) ==
    IF ~Exists(file) THEN FileNotFound(file)
    ELSE LET data == Strip(fs[file])
         IN  IF stat_type = "power"
             THEN IF IntOk(data)
                  THEN Returned(IntOf(data) \div 1000000, <<file>>)
                  ELSE InvalidLiteral(<<file>>)
             ELSE Returned(data, <<file>>)

\* utils.read_stat(file, stat_type)
ReadStat(file, stat_type) ==
    IF ~Exists(file) THEN FileNotFound(file)
    ELSE LET data == Strip(fs[file])
         IN  IF stat_type = "power"
             THEN IF IntOk(data)
                  THEN Returned(TruncDiv(IntOf(data), 1000000), <<file>>)
                  ELSE InvalidLiteral(<<file>>)
             ELSE Returned(data, <<file>>)

\* int(read_stat(file))
IntOfRead(r) ==
    IF r.exc # "" THEN r
    ELSE IF IntOk(r.val) THEN Returned(IntOf(r.val), r.reads)
    ELSE InvalidLiteral(r.reads)

\* the two ValueErrors every accessor raises for a card that is no key of
\* AMDGPU_CARDS
InvalidCard(card) ==
    IF Len(AMDGPU_CARDS) > 0
    THEN Raised("ValueError",
                [form |-> "Invalid card. Must be one of", card |-> card,
                 keys |-> DictKeys(AMDGPU_CARDS)], <<>>)
    ELSE Raised("ValueError",
                [form |-> "Invalid card, no AMD GPUs or hwmon directories found",
                 card |-> card, keys |-> <<>>], <<>>)

CLOCK_DOMAINS == {"core", "memory"}

\* a dict display that leaves out the fields whose value could not be read
RECURSIVE DictDisplaySkipping(_, _, _)
DictDisplaySkipping(items, acc, reads) ==
    IF items = <<>> THEN Returned(acc, reads)
    ELSE LET it == Head(items)
         IN  IF it.out.exc # ""
             THEN DictDisplaySkipping(Tail(items), acc, reads \o it.out.reads)
             ELSE DictDisplaySkipping(Tail(items), DictSet(acc, it.key, it.out.val),
                                      reads \o it.out.reads)

\* A dict display {k1: e1, k2: e2, ...}: the values are computed in order,
\* the first exception leaves the display and nothing is returned.
\* items is the tuple of [key, out] with out the outcome of each value.
RECURSIVE DictDisplay(_, _, _)
DictDisplay(items, acc, reads) ==
    IF items = <<>> THEN Returned(acc, reads)
    ELSE LET it == Head(items)
         IN  IF it.out.exc # ""
             THEN Raised(it.out.exc, it.out.msg, reads \o it.out.reads)
             ELSE DictDisplay(Tail(items), DictSet(acc, it.key, it.out.val),
                              reads \o it.out.reads)

\* lines 103-106: the fields of get_power_stats, in the order they are read
PowerFields(dir) ==
    <<[key |-> "limit", out |-> ReadStat(Join(dir, PowerCap), "power")],
      [key |-> "average", out |-> ReadStat(Join(dir, PowerAverage), "power")],
      [key |-> "capability", out |-> ReadStat(Join(dir, PowerCapMax), "power")],
      [key |-> "default", out |-> ReadStat(Join(dir, PowerCapDefault), "power")]>>

\* utils.get_power_stats(card)
GetPowerStats(card) ==
    IF DictHas(AMDGPU_CARDS, card)
    THEN DictDisplay(PowerFields(DictGet(AMDGPU_CARDS, card)), EmptyDict, <<>>)
    ELSE InvalidCard(card)

\* utils.get_clock(card, domain), format_freq left at its default False
GetClock(card, domain) ==
    IF ~DictHas(AMDGPU_CARDS, card) THEN InvalidCard(card)
    ELSE IF domain \notin CLOCK_DOMAINS
    THEN Raised("ValueError", [form |-> "Invalid clock domain", card |-> "", keys |-> <<>>], <<>>)
    ELSE LET dir == DictGet(AMDGPU_CARDS, card)
             clock_file == IF domain = "core" THEN Join(dir, Freq1Input)
                           ELSE Join(dir, Freq2Input)
         IN  IntOfRead(ReadStat(clock_file, ""))

\* round(mv / 1000.0, 2), in hundredths of a volt.  A reading that ends in 5
\* lies between two hundredths and the binary float decides; the model's
\* files hold no such reading.
RoundCentivolt(mv) == (mv + 5) \div 10

\* get_voltage that looks the card up again on the host before it reads
GetVoltageRediscovering(card) ==
    IF DictHas(AMDGPU_CARDS, card)
       /\ Exists(Join(DictGet(AMDGPU_CARDS, card), NameFile))
    THEN LET r == IntOfRead(ReadStat(Join(DictGet(AMDGPU_CARDS, card), In0Input), ""))
         IN  IF r.exc # "" THEN r ELSE Returned(RoundCentivolt(r.val), r.reads)
    ELSE InvalidCard(card)

\* utils.get_voltage(card)
GetVoltage(card) ==
    IF DictHas(AMDGPU_CARDS, card)
    THEN LET dir == DictGet(AMDGPU_CARDS, card)
             r == IntOfRead(ReadStat(Join(dir, In0Input), ""))
         IN  IF r.exc # "" THEN r ELSE Returned(RoundCentivolt(r.val), r.reads)
    ELSE InvalidCard(card)

\* utils.get_fan_rpm(card)
GetFanRpm(card) ==
    IF DictHas(AMDGPU_CARDS, card)
    THEN IntOfRead(ReadStat(Join(DictGet(AMDGPU_CARDS, card), Fan1Input), ""))
    ELSE InvalidCard(card)

\* utils.get_fan_target(card)
GetFanTarget(card) ==
    IF DictHas(AMDGPU_CARDS, card)
    THEN IntOfRead(ReadStat(Join(DictGet(AMDGPU_CARDS, card), Fan1Target), ""))
    ELSE InvalidCard(card)

\* get_gpu_usage without the check of the card (the path needs no registry)
GetGpuUsageUnchecked(card) ==
    IntOfRead(ReadStat(Join(DeviceDir(card), GpuBusyPercent), ""))

\* utils.get_gpu_usage(card): the file lies below the card, not the hwmon
\* directory
GetGpuUsage(card) ==
    IF DictHas(AMDGPU_CARDS, card)
    THEN IntOfRead(ReadStat(Join(DeviceDir(card), GpuBusyPercent), ""))
    ELSE InvalidCard(card)

\* lines 124-127: the fields of get_core_stats, in the order they are read
CoreFields(card) ==
    <<[key |-> "sclk", out |-> GetClock(card, "core")],
      [key |-> "mclk", out |-> GetClock(card, "memory")],
      [key |-> "voltage", out |-> GetVoltage(card)],
      [key |-> "util_pct", out |-> GetGpuUsage(card)]>>

\* utils.get_core_stats(card)
GetCoreStats(card) ==
    IF DictHas(AMDGPU_CARDS, card)
    THEN DictDisplay(CoreFields(card), EmptyDict, <<>>)
    ELSE InvalidCard(card)

\* a loop that keeps the value file of the first label of a name
RECURSIVE TempFilesLoopFirstWins(_, _, _)
TempFilesLoopFirstWins(temp_node_labels, dir, files) ==
    IF temp_node_labels = <<>> THEN files
    ELSE LET temp_node_label_file == Head(temp_node_labels)
             temp_node_id == SplitUnderscoreFirst(Basename(temp_node_label_file))
             temp_node_value_file == Join(dir, temp_node_id \o <<"_", "input">>)
             temp_node_name == Strip(fs[temp_node_label_file])
         IN  TempFilesLoopFirstWins(Tail(temp_node_labels), dir,
                 IF DictHas(files, temp_node_name) THEN files
                 ELSE DictSet(files, temp_node_name, temp_node_value_file))

\* lines 267-275 of get_temp_stats: the dict of sensor name -> value file
RECURSIVE TempFilesLoop(_, _, _)
TempFilesLoop(temp_node_labels, dir, files) ==
    IF temp_node_labels = <<>> THEN files
    ELSE LET temp_node_label_file == Head(temp_node_labels)
             temp_node_id == SplitUnderscoreFirst(Basename(temp_node_label_file))
             temp_node_value_file == Join(dir, temp_node_id \o <<"_", "input">>)
             temp_node_name == Strip(fs[temp_node_label_file])
         IN  TempFilesLoop(Tail(temp_node_labels), dir,
                           DictSet(files, temp_node_name, temp_node_value_file))

\* lines 277-283: every value file read and converted, in the order of the dict
RECURSIVE TempUpdateLoop(_, _, _)
TempUpdateLoop(files, temp_update, reads) ==
    IF files = <<>> THEN Returned(temp_update, reads)
    ELSE LET r == IntOfRead(ReadStat(Head(files).val, ""))
         IN  IF r.exc # "" THEN Raised(r.exc, r.msg, reads \o r.reads)
             ELSE TempUpdateLoop(Tail(files),
                                 DictSet(temp_update, Head(files).key, r.val \div 1000),
                                 reads \o r.reads)

\* get_temp_stats that takes temp1_input for granted, as the script's
\* src_files does
GetTempStatsWithEdge(card, temp_node_labels) ==
    IF DictHas(AMDGPU_CARDS, card)
    THEN LET dir == DictGet(AMDGPU_CARDS, card)
             edge == IntOfRead(ReadStat(Join(dir, TempInput(<<"temp", "1">>)), ""))
         IN  IF edge.exc # "" THEN edge
             ELSE TempUpdateLoop(TempFilesLoop(temp_node_labels, dir, EmptyDict),
                                 EmptyDict, temp_node_labels)
    ELSE InvalidCard(card)

\* get_temp_stats that answers from what the last call on the card returned
GetTempStatsCached(card, temp_node_labels) ==
    IF DictHas(AMDGPU_CARDS, card)
    THEN IF held.op = "get_temp_stats" /\ held.card = card /\ held.exc = ""
         THEN Returned(held.val, <<>>)
         ELSE LET dir == DictGet(AMDGPU_CARDS, card)
              IN  TempUpdateLoop(TempFilesLoop(temp_node_labels, dir, EmptyDict),
                                 EmptyDict, temp_node_labels)
    ELSE InvalidCard(card)

\* utils.get_temp_stats(card), with the enumeration that glob.glob returned
GetTempStats(card, temp_node_labels) ==
    IF DictHas(AMDGPU_CARDS, card)
    THEN LET dir == DictGet(AMDGPU_CARDS, card)
         IN  TempUpdateLoop(TempFilesLoop(temp_node_labels, dir, EmptyDict),
                            EmptyDict, temp_node_labels)
    ELSE InvalidCard(card)

(***************************************************************************)
(* The files of a host.  Every hwmon instance holds its own readings (the  *)
(* first digit is the instance's), so that a reading tells which           *)
(* directory it was read from.  hwmon0 has two temperature sensors, hwmon1 *)
(* one, hwmon2 none.                                                       *)
(***************************************************************************)
NL == <<"\n">>
AmdgpuName == AmdgpuText \o NL
AmdgpuxName == AmdgpuText \o <<"x">> \o NL
NameTexts == {AmdgpuName, AmdgpuxName}
\* what the name file of an instance reads on the hosts of the model: an
\* instance of card0 may belong to another driver
NameChoices(p) ==
    IF CardOfPath(p) = "card0" THEN NameTexts \cup {Absent} ELSE {AmdgpuName, Absent}
EdgeLabel == <<"e", "d", "g", "e">> \o NL
JunctionLabel == <<"j", "u", "n", "c">> \o NL
NotANumber == <<"N", "/", "A">> \o NL

InstanceDigit(dir) ==
    CASE dir[8] = "hwmon0" -> "1"
      [] dir[8] = "hwmon1" -> "2"
      [] dir[8] = "hwmon2" -> "3"

StatText(p) ==
    LET d == <<InstanceDigit(p.dir)>>
    IN  CASE p.file = PowerCap -> d \o <<"2", "0", "0", "0", "0", "0", "0", "0">> \o NL
          [] p.file = PowerAverage -> d \o <<"5", "2", "3", "4", "5", "6", "7">> \o NL
          [] p.file = PowerCapMax -> d \o <<"5", "0", "0", "0", "0", "0", "0", "0">> \o NL
          [] p.file = PowerCapDefault -> d \o <<"1", "0", "0", "0", "0", "0", "0", "0">> \o NL
          [] p.file = Freq1Input -> d \o <<"2", "5", "0", "0", "0", "0", "0", "0">> \o NL
          [] p.file = Freq2Input -> d \o <<"0", "0", "0", "0", "0", "0", "0", "0">> \o NL
          [] p.file = In0Input -> d \o <<"0", "0", "6">> \o NL
          [] p.file = Fan1Input -> d \o <<"2", "0", "0">> \o NL
          [] p.file = Fan1Target -> d \o <<"2", "5", "0">> \o NL
          [] p.file = TempLabel(<<"temp", "1">>) -> EdgeLabel
          [] p.file = TempInput(<<"temp", "1">>) -> d \o <<"5", "9", "9", "9">> \o NL
          [] p.file = TempLabel(<<"temp", "2">>) -> JunctionLabel
          [] p.file = TempInput(<<"temp", "2">>) -> d \o <<"7", "5", "0", "0">> \o NL

BusyText(card) == IF card = "card0" THEN <<"4", "2">> \o NL ELSE <<"7">> \o NL

SensorsAtBoot(dir) ==
    CASE dir[8] = "hwmon0" -> TempNodes
      [] dir[8] = "hwmon1" -> {<<"temp", "1">>}
      [] dir[8] = "hwmon2" -> {}

BootFiles(dir) ==
    FixedStatFiles \cup {TempLabel(n) : n \in SensorsAtBoot(dir)}
                   \cup {TempInput(n) : n \in SensorsAtBoot(dir)}

\* the namespace of a host whose hwmon name files read as `names` says
\* (a directory whose name file is Absent does not exist)
HostFiles(names) ==
    [p \in AllPaths |->
        IF p \in NamePaths THEN names[p]
        ELSE IF p \in BusyPaths
        THEN IF \E q \in NamePaths : CardOfPath(q) = CardOfPath(p) /\ names[q] # Absent
             THEN BusyText(CardOfPath(p)) ELSE Absent
        ELSE IF names[Join(p.dir, NameFile)] # Absent /\ p.file \in BootFiles(p.dir)
             THEN StatText(p) ELSE Absent]

(***************************************************************************)
(* gpustats.py: the script's own discovery, reader and converters.         *)
(***************************************************************************)
NoneCard == "None"
NoneDir == <<"None">>

\* the body of the loop of find_card, lines 35-41
FindCardStep(found, hwmon_name_file) ==
    IF Strip(fs[hwmon_name_file]) = AmdgpuText
    THEN [card |-> SplitSlash(hwmon_name_file, 4), hwmon_dir |-> Dirname(hwmon_name_file)]
    ELSE found

RECURSIVE FindCardLoop(_, _)
FindCardLoop(names, found) ==
    IF names = <<>> THEN found
    ELSE FindCardLoop(Tail(names), FindCardStep(found, Head(names)))

\* find_card(), with the enumeration that glob.glob returned
FindCard(names) == FindCardLoop(names, [card |-> NoneCard, hwmon_dir |-> NoneDir])

\* gpustats.read_stat(file)
ScriptReadStat(file) ==
    IF ~Exists(file) THEN FileNotFound(file) ELSE Returned(Strip(fs[file]), <<file>>)

\* the dict src_files of lines 325-336
SrcFiles ==
    [pwr_limit |-> Join(hwmon_dir, PowerCap),
     pwr_average |-> Join(hwmon_dir, PowerAverage),
     pwr_cap |-> Join(hwmon_dir, PowerCapMax),
     pwr_default |-> Join(hwmon_dir, PowerCapDefault),
     core_clock |-> Join(hwmon_dir, Freq1Input),
     core_voltage |-> Join(hwmon_dir, In0Input),
     memory_clock |-> Join(hwmon_dir, Freq2Input),
     busy_pct |-> Join(CardDir(CARD) \o <<"device">>, GpuBusyPercent),
     temp_c |-> Join(hwmon_dir, TempInput(<<"temp", "1">>)),
     fan_rpm |-> Join(hwmon_dir, Fan1Input),
     fan_rpm_target |-> Join(hwmon_dir, Fan1Target)]

\* lines 346-357: the sensors found once, when the script starts
RECURSIVE ScriptTempFilesLoop(_, _, _)
ScriptTempFilesLoop(labels, dir, files) ==
    IF labels = <<>> THEN files
    ELSE LET temp_node_id == SplitUnderscoreFirst(Basename(Head(labels)))
             temp_node_value_file == Join(dir, temp_node_id \o <<"_", "input">>)
             temp_node_name == Strip(fs[Head(labels)])
         IN  ScriptTempFilesLoop(Tail(labels), dir,
                                 DictSet(files, temp_node_name, temp_node_value_file))

\* str.replace(old, new) on a text
RECURSIVE Replace(_, _, _)
Replace(s, old, new) ==
    IF Len(s) < Len(old) THEN s
    ELSE IF SubSeq(s, 1, Len(old)) = old
    THEN new \o Replace(SubSeq(s, Len(old) + 1, Len(s)), old, new)
    ELSE <<Head(s)>> \o Replace(Tail(s), old, new)

\* humanfriendly.format_size(n, binary=False), as far as a 32-bit reading
\* goes: the number in hundredths of the unit, and the unit
FormatSize(n) ==
    LET scaled(divider) ==
            (n \div divider) * 100 + ((n % divider) + divider \div 200) \div (divider \div 100)
    IN  IF n >= 1000000000 THEN [count |-> scaled(1000000000), unit |-> <<"G", "B">>]
        ELSE IF n >= 1000000 THEN [count |-> scaled(1000000), unit |-> <<"M", "B">>]
        ELSE IF n >= 1000 THEN [count |-> scaled(1000), unit |-> <<"K", "B">>]
        ELSE IF n = 1 THEN [count |-> 100, unit |-> <<"b", "y", "t", "e">>]
        ELSE [count |-> n * 100, unit |-> <<"b", "y", "t", "e", "s">>]

\* gpustats.format_frequency(frequency_hz); the digits of the number hold
\* neither "B" nor "bytes", so the replacements act on the unit
ScriptFormatFrequency(frequency_hz) ==
    LET size == FormatSize(frequency_hz)
    IN  [count |-> size.count,
         unit |-> Replace(Replace(size.unit, <<"B">>, <<"H", "z">>),
                          <<"b", "y", "t", "e", "s">>, <<"H", "z">>)]

\* f'{m / 1000:.0f}': the nearest whole number, a half to the even one
RoundToWhole(m) ==
    LET q == m \div 1000
        r == m % 1000
    IN  IF r > 500 \/ (r = 500 /\ q % 2 = 1) THEN q + 1 ELSE q

\* MiscDisplay.update_fan_stats: the dict it assigns, or the exception
UpdateFanStats ==
    DictDisplay(
      <<[key |-> "fan_rpm", out |-> ScriptReadStat(SrcFiles.fan_rpm)],
        [key |-> "fan_rpm_target", out |-> ScriptReadStat(SrcFiles.fan_rpm_target)]>>,
      EmptyDict, <<>>)

\* MiscDisplay.update_temp_stats
RECURSIVE UpdateTempStatsLoop(_, _, _)
UpdateTempStatsLoop(files, val_update, reads) ==
    IF files = <<>> THEN Returned(val_update, reads)
    ELSE LET r == IntOfRead(ScriptReadStat(Head(files).val))
         IN  IF r.exc # "" THEN Raised(r.exc, r.msg, reads \o r.reads)
             ELSE UpdateTempStatsLoop(Tail(files),
                                      DictSet(val_update, Head(files).key, RoundToWhole(r.val)),
                                      reads \o r.reads)

UpdateTempStats == UpdateTempStatsLoop(temp_files, EmptyDict, <<>>)

\* format_frequency(read_stat(file)): int() of the text, then the format
FrequencyOfRead(r) ==
    LET i == IntOfRead(r)
    IN  IF i.exc # "" THEN i ELSE Returned(ScriptFormatFrequency(i.val), i.reads)

\* float(f"{int(read_stat(file)) / 1000:.2f}"), in hundredths of a volt
VoltageOfRead(r) ==
    LET i == IntOfRead(r)
    IN  IF i.exc # "" THEN i ELSE Returned(RoundCentivolt(i.val), i.reads)

\* ClockDisplay.update_core_vals
UpdateCoreVals ==
    DictDisplay(
      <<[key |-> "sclk", out |-> FrequencyOfRead(ScriptReadStat(SrcFiles.core_clock))],
        [key |-> "mclk", out |-> FrequencyOfRead(ScriptReadStat(SrcFiles.memory_clock))],
        [key |-> "voltage", out |-> VoltageOfRead(ScriptReadStat(SrcFiles.core_voltage))],
        [key |-> "util_pct", out |-> ScriptReadStat(SrcFiles.busy_pct)]>>,
      EmptyDict, <<>>)

\* int(int(read_stat(file)) / 1000000)
WattsOfRead(r) ==
    LET i == IntOfRead(r)
    IN  IF i.exc # "" THEN i ELSE Returned(TruncDiv(i.val, 1000000), i.reads)

\* PowerDisplay.update_micro_watts
UpdateMicroWatts ==
    DictDisplay(
      <<[key |-> "limit", out |-> WattsOfRead(ScriptReadStat(SrcFiles.pwr_limit))],
        [key |-> "average", out |-> WattsOfRead(ScriptReadStat(SrcFiles.pwr_average))],
        [key |-> "capability", out |-> WattsOfRead(ScriptReadStat(SrcFiles.pwr_cap))],
        [key |-> "default", out |-> WattsOfRead(ScriptReadStat(SrcFiles.pwr_default))]>>,
      EmptyDict, <<>>)

(***************************************************************************)
(* What a step of the process does to the files.  Every open() of the     *)
(* code is open(file, "r"): it leaves the namespace as it is.              *)
(***************************************************************************)
\* open(file, "w") instead: the file is created or emptied
OpenForWriting(files, file) == [files EXCEPT ![file] = <<>>]

OpenForReading(files, file) == files

RECURSIVE AfterOpensFrom(_, _)
AfterOpensFrom(files, opened) ==
    IF opened = <<>> THEN files
    ELSE AfterOpensFrom(OpenForReading(files, Head(opened)), Tail(opened))

\* the namespace after the files of `opened` were opened, in order
AfterOpens(opened) == AfterOpensFrom(fs, opened)

(***************************************************************************)
(* Initial state: a host, and a process that has not run yet.              *)
(***************************************************************************)
NoCall == [op |-> "", card |-> "", arg |-> "", exc |-> "", msg |-> NoMsg,
           val |-> NoValue, reads |-> <<>>]
NotSampling ==
    [op |-> "", card |-> "", fields |-> 0, files |-> EmptyDict, acc |-> EmptyDict,
     reads |-> <<>>, instants |-> {}]
NoExit == [status |-> -1, msg |-> ""]
NoException == [callback |-> "", exc |-> ""]

Init ==
    /\ \E names \in [NamePaths -> NameTexts \cup {Absent}] :
          /\ \A p \in NamePaths : names[p] \in NameChoices(p)
          /\ fs = HostFiles(names)
    /\ fsChanges = 0
    /\ pc = "start"
    /\ exit = NoExit
    /\ hwmon_names = <<>>
    /\ AMDGPU_CARDS = EmptyDict
    /\ result = NoCall
    /\ held = NoCall
    /\ sampling = NotSampling
    /\ CARD = NoneCard
    /\ hwmon_dir = NoneDir
    /\ temp_files = EmptyDict
    /\ fan_stats = <<[key |-> "fan_rpm", val |-> 0], [key |-> "fan_rpm_target", val |-> 0]>>
    /\ temp_stats = EmptyDict
    /\ core_vals = <<[key |-> "sclk", val |-> 0], [key |-> "mclk", val |-> 0],
                     [key |-> "voltage", val |-> 0], [key |-> "util_pct", val |-> 0]>>
    /\ micro_watts = <<[key |-> "limit", val |-> 0], [key |-> "average", val |-> 0],
                       [key |-> "capability", val |-> 0], [key |-> "default", val |-> 0]>>
    /\ ticks = 0
    /\ unhandled = NoException

(***************************************************************************)
(* The kernel side: the driver answers with text that is no number, a      *)
(* file, a sensor or a whole device goes away, a sensor or a hwmon         *)
(* instance appears.  These steps are taken while the process runs and no  *)
(* call is under way; the process itself never takes them.                 *)
(***************************************************************************)
EnvMay ==
    /\ fsChanges < MaxFsChanges
    /\ pc \in {"imported", "script_running"}
    /\ result.op = NoCall.op

EnvFrame == UNCHANGED <<pc, exit, utilsVars, scriptVars, widgetVars>>

IsReading(p) == p \in StatPaths /\ ~IsTempLabelName(p.file)

\* The statistic files the running process is set to open: those of the
\* directories of the registry and the busy files of its cards or, for the
\* script, the files of src_files and temp_files.  A single file of another
\* directory is opened by nothing, and the model leaves it alone.
Watched ==
    IF pc = "script_running"
    THEN {SrcFiles[k] : k \in DOMAIN SrcFiles} \cup {temp_files[i].val : i \in 1..Len(temp_files)}
    ELSE {p \in StatPaths :
            \E i \in 1..Len(AMDGPU_CARDS) :
                \/ p.dir = AMDGPU_CARDS[i].val
                \/ p = Join(DeviceDir(AMDGPU_CARDS[i].key), GpuBusyPercent)}

\* The files that fail one by one: of every family of readings at least
\* one, at the first, a middle and the last place of the reads of a call.
\* The other files go away with their device only.
FailsAlone(p) ==
    p.file \in {PowerAverage, Freq2Input, In0Input, Fan1Input, GpuBusyPercent}
                  \cup {TempInput(n) : n \in TempNodes}

\* the driver answers a reading with text that is no number
DriverWritesGarbage ==
    /\ EnvMay
    /\ \E p \in Watched :
          /\ IsReading(p)
          /\ FailsAlone(p)
          /\ Exists(p)
          /\ fs[p] # NotANumber
          /\ fs' = [fs EXCEPT ![p] = NotANumber]
    /\ fsChanges' = fsChanges + 1
    /\ EnvFrame

\* one statistic file goes away
FileVanishes ==
    /\ EnvMay
    /\ \E p \in Watched :
          /\ FailsAlone(p)
          /\ Exists(p)
          /\ fs' = [fs EXCEPT ![p] = Absent]
    /\ fsChanges' = fsChanges + 1
    /\ EnvFrame

\* a card is unplugged: everything below it goes away
DeviceRemoved ==
    /\ EnvMay
    /\ \E card \in Cards :
          /\ \E p \in AllPaths : CardOfPath(p) = card /\ Exists(p)
          /\ fs' = [p \in AllPaths |-> IF CardOfPath(p) = card THEN Absent ELSE fs[p]]
    /\ fsChanges' = fsChanges + 1
    /\ EnvFrame

\* a temperature sensor appears in an existing hwmon directory: its label
\* file and its value file
SensorAppears ==
    /\ EnvMay
    /\ \E d \in HwmonDirs, n \in TempNodes, label \in {EdgeLabel, JunctionLabel} :
          /\ Exists(Join(d, NameFile))
          /\ ~Exists(Join(d, TempLabel(n)))
          /\ fs' = [fs EXCEPT ![Join(d, TempLabel(n))] = label,
                              ![Join(d, TempInput(n))] = StatText(Join(d, TempInput(n)))]
    /\ fsChanges' = fsChanges + 1
    /\ EnvFrame

\* a temperature sensor goes away: its label file and its value file
SensorVanishes ==
    /\ EnvMay
    /\ \E d \in HwmonDirs, n \in TempNodes :
          /\ Exists(Join(d, TempLabel(n)))
          /\ Exists(Join(d, TempInput(n)))
          /\ fs' = [fs EXCEPT ![Join(d, TempLabel(n))] = Absent,
                              ![Join(d, TempInput(n))] = Absent]
    /\ fsChanges' = fsChanges + 1
    /\ EnvFrame

\* a hwmon instance appears (a card is plugged in, a driver is loaded)
HwmonAppears ==
    /\ EnvMay
    /\ \E d \in HwmonDirs, name \in NameTexts :
          /\ ~Exists(Join(d, NameFile))
          /\ fs' = [p \in AllPaths |->
                      IF p.dir = d /\ p.file = NameFile THEN name
                      ELSE IF p.dir = d /\ p.file \in BootFiles(d) THEN StatText(p)
                      ELSE IF p = Join(DeviceDir(d[5]), GpuBusyPercent) THEN BusyText(d[5])
                      ELSE fs[p]]
    /\ fsChanges' = fsChanges + 1
    /\ EnvFrame

(***************************************************************************)
(* utils.py: the import, and the calls of a caller that imported it.       *)
(***************************************************************************)
\* line 47, run when the module is imported: AMDGPU_CARDS = find_cards()
ImportUtils ==
    /\ pc = "start"
    /\ \E names \in HwmonNameOrders :
          /\ hwmon_names' = names
          /\ AMDGPU_CARDS' = FindCards(names)
          /\ fs' = AfterOpens(names)
    /\ pc' = "imported"
    /\ UNCHANGED <<fsChanges, exit, result, held, sampling, scriptVars, widgetVars>>

\* the card arguments a caller passes: the cards of the host and one that
\* no host has
CardArgs == Cards \cup {"card7"}

CallOf(op, card, arg, out) ==
    [op |-> op, card |-> card, arg |-> arg, exc |-> out.exc, msg |-> out.msg,
     val |-> out.val, reads |-> out.reads]

CanCall == pc = "imported" /\ result.op = NoCall.op

CallFrame ==
    UNCHANGED <<fsChanges, pc, exit, hwmon_names, AMDGPU_CARDS, held, sampling, scriptVars,
                widgetVars>>

Called(call) == result' = call /\ fs' = AfterOpens(call.reads) /\ CallFrame

CallGetPowerStats ==
    /\ CanCall
    /\ \E card \in CardArgs : Called(CallOf("get_power_stats", card, "", GetPowerStats(card)))

CallGetCoreStats ==
    /\ CanCall
    /\ \E card \in CardArgs : Called(CallOf("get_core_stats", card, "", GetCoreStats(card)))

CallGetClock ==
    /\ CanCall
    /\ \E card \in CardArgs, domain \in CLOCK_DOMAINS \cup {"shader"} :
          Called(CallOf("get_clock", card, domain, GetClock(card, domain)))

CallGetVoltage ==
    /\ CanCall
    /\ \E card \in CardArgs : Called(CallOf("get_voltage", card, "", GetVoltage(card)))

CallGetFanRpm ==
    /\ CanCall
    /\ \E card \in CardArgs : Called(CallOf("get_fan_rpm", card, "", GetFanRpm(card)))

CallGetFanTarget ==
    /\ CanCall
    /\ \E card \in CardArgs : Called(CallOf("get_fan_target", card, "", GetFanTarget(card)))

CallGetGpuUsage ==
    /\ CanCall
    /\ \E card \in CardArgs : Called(CallOf("get_gpu_usage", card, "", GetGpuUsage(card)))

CallGetTempStats ==
    /\ CanCall
    /\ \E card \in CardArgs :
          \E labels \in (IF DictHas(AMDGPU_CARDS, card)
                         THEN TempLabelOrders(DictGet(AMDGPU_CARDS, card)) ELSE {<<>>}) :
             Called(CallOf("get_temp_stats", card, "", GetTempStats(card, labels)))

\* the caller has taken the result
CallReturns ==
    /\ result.op # NoCall.op
    /\ result' = NoCall
    /\ UNCHANGED <<fs, fsChanges, pc, exit, hwmon_names, AMDGPU_CARDS, held, sampling,
                   scriptVars, widgetVars>>

\* the caller has taken the result and keeps it
CallerKeeps ==
    /\ result.op # NoCall.op
    /\ held' = result
    /\ result' = NoCall
    /\ UNCHANGED <<fs, fsChanges, pc, exit, hwmon_names, AMDGPU_CARDS, sampling,
                   scriptVars, widgetVars>>

(***************************************************************************)
(* __init__.py: the entry point of the package.                            *)
(***************************************************************************)
CouldNotFind == "Could not find an AMD GPU, exiting."

\* a check that an empty registry passes
CheckForCardsLenient == Len(AMDGPU_CARDS) >= 0

\* check_for_cards()
CheckForCards == Len(AMDGPU_CARDS) > 0

\* textual_run(): the app of tui.py is started, or sys.exit(message), which
\* ends the process with status 1
TextualRun ==
    /\ pc = "imported"
    /\ result.op = NoCall.op
    /\ IF CheckForCards
       THEN pc' = "app_running" /\ UNCHANGED exit
       ELSE pc' = "exited" /\ exit' = [status |-> 1, msg |-> CouldNotFind]
    /\ UNCHANGED <<fs, fsChanges, utilsVars, scriptVars, widgetVars>>

(***************************************************************************)
(* gpustats.py: the script.                                                *)
(***************************************************************************)
\* the command lines of the model
ArgVectors == {<<>>, <<"-i", "0.5">>, <<"-h">>, <<"--card", "card0">>}

\* p.parse_args(), lines 296-316: -h prints the help and ends the process
\* with status 0, an argument the parser does not know ends it with status 2
ParseArgs(argv) ==
    IF argv = <<>> \/ (Len(argv) = 2 /\ argv[1] \in {"-i", "--interval"})
    THEN [parsed |-> TRUE, status |-> -1, msg |-> ""]
    ELSE IF argv[1] \in {"-h", "--help"}
    THEN [parsed |-> FALSE, status |-> 0, msg |-> "usage"]
    ELSE [parsed |-> FALSE, status |-> 2, msg |-> "error: unrecognized arguments"]

\* lines 294-360: find_card, the arguments, the check for a card, the
\* discovery of the sensors, and app.run(), which mounts the widgets and
\* so starts the four timers
ScriptMain ==
    /\ pc = "start"
    /\ \E names \in HwmonNameOrders, argv \in ArgVectors :
          LET found == FindCard(names)
              args == ParseArgs(argv)
          IN  /\ hwmon_names' = names
              /\ CARD' = found.card
              /\ hwmon_dir' = found.hwmon_dir
              /\ IF ~args.parsed
                 THEN /\ pc' = "script_exited"
                      /\ exit' = [status |-> args.status, msg |-> args.msg]
                      /\ fs' = AfterOpens(names)
                      /\ UNCHANGED temp_files
                 ELSE IF found.card = NoneCard
                 THEN /\ pc' = "script_exited"
                      /\ exit' = [status |-> 1, msg |-> CouldNotFind]
                      /\ fs' = AfterOpens(names)
                      /\ UNCHANGED temp_files
                 ELSE \E labels \in TempLabelOrders(found.hwmon_dir) :
                      /\ temp_files' = ScriptTempFilesLoop(labels, found.hwmon_dir, EmptyDict)
                      /\ pc' = "script_running"
                      /\ fs' = AfterOpens(names \o labels)
                      /\ UNCHANGED exit
    /\ UNCHANGED <<fsChanges, AMDGPU_CARDS, result, held, sampling, widgetVars>>

\* A timer made by set_interval runs its callback bare.  A callback that
\* returns has assigned the reactive value; an exception that leaves it is
\* handled by nothing in the script and ends app.run().
CanTick == pc = "script_running" /\ ticks < MaxTicks

Ticked(callback, out) ==
    /\ ticks' = ticks + 1
    /\ fs' = AfterOpens(out.reads)
    /\ IF out.exc = ""
       THEN UNCHANGED <<pc, unhandled>>
       ELSE pc' = "script_crashed" /\ unhandled' = [callback |-> callback, exc |-> out.exc]
    /\ UNCHANGED <<fsChanges, exit, utilsVars, scriptVars>>

TickFan ==
    /\ CanTick
    /\ LET out == UpdateFanStats
       IN  /\ Ticked("update_fan_stats", out)
           /\ fan_stats' = IF out.exc = "" THEN out.val ELSE fan_stats
    /\ UNCHANGED <<temp_stats, core_vals, micro_watts>>

TickTemp ==
    /\ CanTick
    /\ LET out == UpdateTempStats
       IN  /\ Ticked("update_temp_stats", out)
           /\ temp_stats' = IF out.exc = "" THEN out.val ELSE temp_stats
    /\ UNCHANGED <<fan_stats, core_vals, micro_watts>>

TickCore ==
    /\ CanTick
    /\ LET out == UpdateCoreVals
       IN  /\ Ticked("update_core_vals", out)
           /\ core_vals' = IF out.exc = "" THEN out.val ELSE core_vals
    /\ UNCHANGED <<fan_stats, temp_stats, micro_watts>>

TickPower ==
    /\ CanTick
    /\ LET out == UpdateMicroWatts
       IN  /\ Ticked("update_micro_watts", out)
           /\ micro_watts' = IF out.exc = "" THEN out.val ELSE micro_watts
    /\ UNCHANGED <<fan_stats, temp_stats, core_vals>>

(***************************************************************************)
(* Specifications.                                                         *)
(***************************************************************************)
\* a caller of utils.py
Next ==
    \/ DriverWritesGarbage
    \/ FileVanishes
    \/ DeviceRemoved
    \/ SensorAppears
    \/ SensorVanishes
    \/ HwmonAppears
    \/ ImportUtils
    \/ CallGetPowerStats
    \/ CallGetCoreStats
    \/ CallGetClock
    \/ CallGetVoltage
    \/ CallGetFanRpm
    \/ CallGetFanTarget
    \/ CallGetGpuUsage
    \/ CallGetTempStats
    \/ CallReturns

Spec == Init /\ [][Next]_vars

\* the two programs: the package entry point and the script
NextApp ==
    \/ DriverWritesGarbage
    \/ FileVanishes
    \/ DeviceRemoved
    \/ ImportUtils
    \/ TextualRun
    \/ ScriptMain
    \/ TickFan
    \/ TickTemp
    \/ TickCore
    \/ TickPower

SpecApp == Init /\ [][NextApp]_vars

\* a caller that calls get_temp_stats and keeps what it returned
NextTemp ==
    \/ SensorAppears
    \/ SensorVanishes
    \/ ImportUtils
    \/ CallGetTempStats
    \/ CallerKeeps

SpecTemp == Init /\ [][NextTemp]_vars

\* every step of the process and of the kernel side
NextAll ==
    \/ DriverWritesGarbage
    \/ FileVanishes
    \/ DeviceRemoved
    \/ SensorAppears
    \/ SensorVanishes
    \/ HwmonAppears
    \/ ImportUtils
    \/ CallGetPowerStats
    \/ CallGetCoreStats
    \/ CallGetClock
    \/ CallGetVoltage
    \/ CallGetFanRpm
    \/ CallGetFanTarget
    \/ CallGetGpuUsage
    \/ CallGetTempStats
    \/ CallReturns
    \/ TextualRun
    \/ ScriptMain
    \/ TickFan
    \/ TickTemp
    \/ TickCore
    \/ TickPower

SpecAll == Init /\ [][NextAll]_vars

(***************************************************************************)
(* Properties.                                                             *)
(***************************************************************************)
AccessorOps ==
    {"get_power_stats", "get_core_stats", "get_clock", "get_voltage", "get_fan_rpm",
     "get_fan_target", "get_gpu_usage", "get_temp_stats"}
SamplerOps == {"get_power_stats", "get_core_stats", "get_temp_stats"}

Registered(card) == DictHas(AMDGPU_CARDS, card)
RegistryKeySet == DictKeySet(AMDGPU_CARDS)
RegistryDir(card) == DictGet(AMDGPU_CARDS, card)
SeqToSet(q) == {q[i] : i \in 1..Len(q)}

\* C1: a call of any per-card accessor with a card that is no key of the
\* registry fails with the invalid-card ValueError and has opened no file;
\* the message is the "no AMD GPUs or hwmon directories found" form exactly
\* when the registry is empty, and otherwise the "Must be one of" form with
\* exactly the keys of the registry.
C1_InvalidCard ==
    (result.op \in AccessorOps /\ ~Registered(result.card)) =>
        /\ result.exc = "ValueError"
        /\ result.reads = <<>>
        /\ result.msg.card = result.card
        /\ (Len(AMDGPU_CARDS) = 0) <=>
              (result.msg.form = "Invalid card, no AMD GPUs or hwmon directories found")
        /\ (Len(AMDGPU_CARDS) > 0) <=> (result.msg.form = "Invalid card. Must be one of")
        /\ SeqToSet(result.msg.keys) = RegistryKeySet
        /\ Len(result.msg.keys) = Cardinality(RegistryKeySet)

\* an unregistered card that does exist on the host was asked for, and the
\* registry holds another card
C1_Witness ==
    /\ result.op = "get_gpu_usage"
    /\ result.card = "card1"
    /\ Exists(Join(DeviceDir("card1"), GpuBusyPercent))
    /\ result.msg.form = "Invalid card. Must be one of"
    /\ result.msg.keys = <<"card0">>

\* a file that can be read as an integer right now
Readable(p) == Exists(p) /\ IntOk(Strip(fs[p]))

PowerFilesOf(dir) ==
    {Join(dir, f) : f \in {PowerCap, PowerAverage, PowerCapMax, PowerCapDefault}}
CoreFilesOf(card, dir) ==
    {Join(dir, Freq1Input), Join(dir, Freq2Input), Join(dir, In0Input),
     Join(DeviceDir(card), GpuBusyPercent)}
InputOfLabel(l) == Join(l.dir, SplitUnderscoreFirst(Basename(l)) \o <<"_", "input">>)
SensorNamesIn(dir) == {Strip(fs[l]) : l \in TempLabelMatches(dir)}

\* C2: a call of get_power_stats, get_core_stats or get_temp_stats on a
\* registered card returns either a snapshot with every field (for
\* get_temp_stats one key for every sensor label of the directory) or an
\* exception and no value at all; it is the exception whenever a required
\* file (for get_temp_stats: the value file of a labelled sensor) is missing
\* or holds no integer; a call that fails for any other reason returns no
\* value either.
C2_AllOrNothing ==
    (result.op \in SamplerOps) =>
        /\ (result.exc # "") => (result.val = NoValue)
        /\ Registered(result.card) =>
             LET dir == RegistryDir(result.card)
             IN  /\ (result.op = "get_power_stats") =>
                      /\ (result.exc = "") =>
                            DictKeySet(result.val) =
                                {"limit", "average", "capability", "default"}
                      /\ (\E p \in PowerFilesOf(dir) : ~Readable(p)) => (result.exc # "")
                 /\ (result.op = "get_core_stats") =>
                      /\ (result.exc = "") =>
                            DictKeySet(result.val) = {"sclk", "mclk", "voltage", "util_pct"}
                      /\ (\E p \in CoreFilesOf(result.card, dir) : ~Readable(p)) =>
                            (result.exc # "")
                 /\ (result.op = "get_temp_stats") =>
                      /\ (result.exc = "") => DictKeySet(result.val) = SensorNamesIn(dir)
                      /\ (\E n \in SensorNamesIn(dir) :
                              \A l \in TempLabelMatches(dir) :
                                  Strip(fs[l]) = n => ~Readable(InputOfLabel(l))) =>
                            (result.exc # "")

\* get_core_stats had read two of its files when the third read failed
C2_Witness ==
    /\ result.op = "get_core_stats"
    /\ Registered(result.card)
    /\ result.exc # ""
    /\ Len(result.reads) >= 2
    /\ result.val = NoValue

\* C3: at the end of discovery every entry card -> directory of the registry
\* is such that directory/name exists and reads "amdgpu" once trimmed, the
\* directory is one of /sys/class/drm/<card>/device/hwmon/<hwmon>, and the
\* key is the segment below /sys/class/drm of that path; a directory whose
\* name file reads anything else is the value of no entry.
C3_RegistryEntries ==
    (pc = "imported" /\ fsChanges = 0) =>
        \A i \in 1..Len(AMDGPU_CARDS) :
            LET e == AMDGPU_CARDS[i]
                name_file == Join(e.val, NameFile)
            IN  /\ name_file \in NamePaths
                /\ Exists(name_file)
                /\ Strip(fs[name_file]) = AmdgpuText
                /\ Dirname(name_file) = e.val
                /\ e.val \in HwmonDirs
                /\ SubSeq(e.val, 1, 4) = DrmRoot
                /\ e.val[5] = e.key
                /\ \A j \in 1..Len(AMDGPU_CARDS) : AMDGPU_CARDS[j].key = e.key => j = i

\* discovery registered a card next to an hwmon instance of another driver
\* whose name starts with "amdgpu"
C3_Witness ==
    /\ pc = "imported"
    /\ fsChanges = 0
    /\ Len(AMDGPU_CARDS) >= 1
    /\ \E p \in NamePaths : Exists(p) /\ fs[p] = AmdgpuxName

\* every file below /sys/class/drm/<card> is gone
CardGone(card) == \A p \in AllPaths : CardOfPath(p) = card => ~Exists(p)

ReadsNoNameFile == \A i \in 1..Len(result.reads) : result.reads[i] \notin NamePaths

\* what an accessor call on a registered card whose files are all gone gives
C4_CallsOnGoneCard ==
    (result.op \in AccessorOps /\ Registered(result.card) /\ CardGone(result.card)) =>
        /\ ReadsNoNameFile
        /\ (result.op # "get_temp_stats"
               /\ ~(result.op = "get_clock" /\ result.arg \notin CLOCK_DOMAINS)) =>
              (result.exc = "IOError" /\ result.msg.form = "No such file or directory")
        /\ (result.op = "get_clock" /\ result.arg \notin CLOCK_DOMAINS) =>
              (result.exc = "ValueError" /\ result.msg.form = "Invalid clock domain")
        /\ (result.op = "get_temp_stats") => (result.exc = "" /\ result.val = EmptyDict)

\* C4 (as the code has it): once built at import the registry never changes,
\* whatever is called and whatever happens to the files; for a registered
\* card whose files are all gone, every accessor that reads fixed files
\* (with a valid clock domain) fails with the file-not-found IO error,
\* get_temp_stats enumerates no label file and returns an empty dict without
\* error, no call gets the invalid-card error and no call reads a name file
\* again.
C4_RegistryFixed ==
    /\ [][pc = "imported" => AMDGPU_CARDS' = AMDGPU_CARDS]_vars
    /\ [](pc = "start" => AMDGPU_CARDS = EmptyDict)
    /\ []C4_CallsOnGoneCard

\* a sampler was called on a registered card after the device was removed
C4_Witness ==
    /\ result.op = "get_temp_stats"
    /\ Registered(result.card)
    /\ CardGone(result.card)
    /\ result.exc = ""
    /\ result.val = EmptyDict

\* C4 as stated: every sampler call on a registered card whose files are
\* gone fails with an IO error
C4_EverySamplerFails ==
    (result.op \in SamplerOps /\ Registered(result.card) /\ CardGone(result.card)) =>
        result.exc = "IOError"

\* C7: nothing found is no failure.  The import always ends with a
\* registry, and the registry is empty when no name file read "amdgpu"
\* (whether name files of other drivers exist or no name file at all);
\* get_temp_stats on a registered card whose directory holds no
\* temp*_label file returns the empty dict and no exception.
C7_NothingFoundIsNoError ==
    /\ (pc = "imported" /\ fsChanges = 0
           /\ \A p \in NamePaths : ~(Exists(p) /\ Strip(fs[p]) = AmdgpuText)) =>
          AMDGPU_CARDS = EmptyDict
    /\ (result.op = "get_temp_stats" /\ Registered(result.card)
           /\ \A n \in TempNodes :
                 ~Exists(Join(RegistryDir(result.card), TempLabel(n)))) =>
          (result.exc = "" /\ result.val = EmptyDict /\ result.reads = <<>>)

\* get_temp_stats was called on a registered card whose hwmon directory is
\* there and has no temperature sensor
C7_Witness ==
    /\ result.op = "get_temp_stats"
    /\ Registered(result.card)
    /\ Exists(Join(RegistryDir(result.card), NameFile))
    /\ Exists(Join(RegistryDir(result.card), Fan1Input))
    /\ \A n \in TempNodes : ~Exists(Join(RegistryDir(result.card), TempLabel(n)))
    /\ result.exc = ""
    /\ result.val = EmptyDict

\* the sensor names the label files of a directory hold right now
LabelsPresent(dir) ==
    {Strip(fs[Join(dir, TempLabel(n))]) : n \in {m \in TempNodes : Exists(Join(dir, TempLabel(m)))}}

\* C8: whatever an earlier call returned, the keys of a get_temp_stats
\* result on a registered card are exactly the names in the temp*_label
\* files present in the card's directory at the time of that call: a sensor
\* added since the last call is in the result, a removed one is not.  Here
\* sensors come and go as a label file with its value file, so the call
\* succeeds, and it has opened every label file that is present.
C8_SensorsReenumerated ==
    (result.op = "get_temp_stats" /\ Registered(result.card)) =>
        /\ result.exc = ""
        /\ DictKeySet(result.val) = LabelsPresent(RegistryDir(result.card))
        /\ \A n \in TempNodes :
              Exists(Join(RegistryDir(result.card), TempLabel(n))) =>
                  \E i \in 1..Len(result.reads) :
                      result.reads[i] = Join(RegistryDir(result.card), TempLabel(n))

\* the second of two calls on the same card, with a sensor added or removed
\* in between: its keys differ from those the first call returned
C8_Witness ==
    /\ held.op = "get_temp_stats"
    /\ held.exc = ""
    /\ result.op = "get_temp_stats"
    /\ result.card = held.card
    /\ Registered(result.card)
    /\ result.exc = ""
    /\ DictKeySet(result.val) # DictKeySet(held.val)
    /\ DictKeySet(result.val) = LabelsPresent(RegistryDir(result.card))

\* C10: only the kernel side changes the monitoring files.  Every step of
\* the process (the import with find_cards, every accessor call with its
\* read_stat calls, the entry points, the script's start and each timer
\* callback), whether it succeeds or fails, leaves every file of the
\* namespace with the content it had, and creates and deletes none.
C10_ProcessNeverWrites == [][fsChanges' = fsChanges => fs' = fs]_vars

\* a sampler call that failed on text that is no number after it had read
\* other files, all of them still there
C10_Witness ==
    /\ result.op = "get_power_stats"
    /\ result.exc = "ValueError"
    /\ Len(result.reads) >= 2
    /\ \A i \in 1..Len(result.reads) : Exists(result.reads[i])
    /\ fs[result.reads[Len(result.reads)]] = NotANumber

\* C5 as stated: a callback that failed on a tick leaves the process
\* running, so that the timers of the other families can fire again
C5_FailedCallbackKeepsRunning ==
    (unhandled # NoException) => (pc = "script_running")

\* the places of the enumeration whose name file reads "amdgpu"
MatchingPlaces ==
    {i \in 1..Len(hwmon_names) :
        Exists(hwmon_names[i]) /\ Strip(fs[hwmon_names[i]]) = AmdgpuText}
MatchingPlacesOf(card) == {i \in MatchingPlaces : CardOfPath(hwmon_names[i]) = card}
LastOf(places) == CHOOSE i \in places : \A j \in places : j <= i

\* C6: with the name files as discovery read them, the registry of
\* find_cards has exactly the cards with a matching name file, and maps each
\* of them to the directory of the last matching name file of that card in
\* the order of the enumeration, wherever the files of other cards stand in
\* it; find_card of the script has the card and the directory of the last
\* matching name file of the whole enumeration, and None when there is none.
C6_LastMatchWins ==
    (fsChanges = 0) =>
        /\ (pc \in {"imported", "app_running", "exited"}) =>
              /\ DictKeySet(AMDGPU_CARDS) =
                     {CardOfPath(hwmon_names[i]) : i \in MatchingPlaces}
              /\ \A i \in 1..Len(AMDGPU_CARDS) :
                    /\ AMDGPU_CARDS[i].val =
                          Dirname(hwmon_names[LastOf(MatchingPlacesOf(AMDGPU_CARDS[i].key))])
                    /\ \A j \in 1..Len(AMDGPU_CARDS) :
                          AMDGPU_CARDS[j].key = AMDGPU_CARDS[i].key => j = i
        /\ (pc \in {"script_running", "script_exited"}) =>
              IF MatchingPlaces = {}
              THEN CARD = NoneCard /\ hwmon_dir = NoneDir
              ELSE /\ CARD = CardOfPath(hwmon_names[LastOf(MatchingPlaces)])
                   /\ hwmon_dir = Dirname(hwmon_names[LastOf(MatchingPlaces)])

\* both hwmon instances of card0 read "amdgpu", the enumeration had hwmon1
\* before hwmon0, and card1 is registered as well
C6_Witness ==
    /\ pc = "imported"
    /\ fsChanges = 0
    /\ Cardinality(MatchingPlacesOf("card0")) = 2
    /\ hwmon_names[LastOf(MatchingPlacesOf("card0"))] = Join(HwmonDir("card0", "hwmon0"), NameFile)
    /\ DictGet(AMDGPU_CARDS, "card0") = HwmonDir("card0", "hwmon0")
    /\ DictHas(AMDGPU_CARDS, "card1")
    /\ DictGet(AMDGPU_CARDS, "card1") = HwmonDir("card1", "hwmon2")

\* the discovery of the entry point that ran found no device
NothingFound ==
    \/ pc \in {"app_running", "exited"} /\ AMDGPU_CARDS = EmptyDict
    \/ pc \in {"script_running", "script_crashed", "script_exited"} /\ CARD = NoneCard

NoCallbackRan ==
    /\ ticks = 0
    /\ unhandled = NoException
    /\ result.op = NoCall.op

\* C9 (as the code has it): when discovery found no device the application
\* is never started and no accessor or timer callback runs; the process
\* ends, with status 1 and the message 'Could not find an AMD GPU, exiting.'
\* when it ends at the check for a card, which textual_run always reaches
\* and the script reaches unless the argument parser has ended the process
\* before (status 0 for the help, 2 for an argument it does not know).
\* The application runs only with a non-empty registry (the script: with a
\* card).
C9_NoDeviceNoApp ==
    /\ NothingFound =>
          /\ pc \in {"exited", "script_exited"}
          /\ NoCallbackRan
          /\ (pc = "exited") => exit = [status |-> 1, msg |-> CouldNotFind]
          /\ (pc = "script_exited") =>
                \/ exit = [status |-> 1, msg |-> CouldNotFind]
                \/ exit.status \in {0, 2} /\ exit.msg # CouldNotFind
    /\ (pc = "app_running") => Len(AMDGPU_CARDS) > 0
    /\ (pc \in {"script_running", "script_crashed"}) =>
          (CARD # NoneCard /\ hwmon_dir # NoneDir)
    /\ (exit.msg = CouldNotFind) => (NothingFound /\ exit.status = 1)

\* the script on a host whose only hwmon instances belong to other drivers:
\* it has ended at the check for a card
C9_Witness ==
    /\ pc = "script_exited"
    /\ CARD = NoneCard
    /\ exit = [status |-> 1, msg |-> CouldNotFind]
    /\ \E p \in NamePaths : Exists(p)
    /\ NoCallbackRan

\* C9 as stated: whenever discovery found no device the process ends with
\* the error exit that carries the message
C9_AlwaysTheMessage ==
    NothingFound => exit = [status |-> 1, msg |-> CouldNotFind]

(***************************************************************************)
(* Unit conversions: read_stat in its power mode and format_frequency,     *)
(* called by themselves on readings of every sign and size of interest.    *)
(***************************************************************************)
\* the microwatt readings the driver answers with: the one of the
\* documentation's example, the last below a watt, a whole number of watts,
\* and readings below zero
PowerReadings ==
    {<<"1", "5", "2", "3", "4", "5", "6", "7">>, <<"9", "9", "9", "9", "9", "9">>,
     <<"2", "0", "0", "0", "0", "0", "0">>, <<"-", "1", "5", "0", "0", "0", "0", "0">>,
     <<"-", "2", "0", "0", "0", "0", "0", "0">>, <<"-", "1">>}

\* the driver answers a power reading with another number
DriverWritesReading ==
    /\ EnvMay
    /\ \E p \in Watched, reading \in PowerReadings :
          /\ p.file \in {PowerCap, PowerAverage}
          /\ Exists(p)
          /\ fs' = [fs EXCEPT ![p] = reading \o NL]
    /\ fsChanges' = fsChanges + 1
    /\ EnvFrame

\* read_stat called by itself on a power file, in either mode
CallReadStat ==
    /\ CanCall
    /\ \E d \in HwmonDirs, f \in {PowerCap, PowerAverage}, stat_type \in {"power", ""} :
          Called(CallOf("read_stat", "", stat_type, ReadStat(Join(d, f), stat_type)))

\* utils.format_frequency(frequency_hz): format_size of humanfriendly with
\* "B" and then "bytes" replaced by "Hz" in its text; the digits of the
\* number hold neither, so the replacements act on the unit
FormatFrequency(frequency_hz) ==
    LET size == FormatSize(frequency_hz)
    IN  Returned([count |-> size.count,
                  unit |-> Replace(Replace(size.unit, <<"B">>, <<"H", "z">>),
                                   <<"b", "y", "t", "e", "s">>, <<"H", "z">>)],
                 <<>>)

\* the frequencies format_frequency is called with: nothing, one, a few, the
\* last below and the first of a unit, a clock of the card, and numbers
\* below zero
FrequencyArgs == {0, 1, 5, 999, 1000, 999999, 1000000, 1200000000, 0 - 1, 0 - 5, 0 - 1000}

CallFormatFrequency ==
    /\ CanCall
    /\ \E frequency_hz \in FrequencyArgs :
          Called(CallOf("format_frequency", "", frequency_hz, FormatFrequency(frequency_hz)))

\* the unit converters and the power sampler
NextUnits ==
    \/ ImportUtils
    \/ DriverWritesReading
    \/ DriverWritesGarbage
    \/ CallReadStat
    \/ CallGetPowerStats
    \/ CallFormatFrequency
    \/ CallReturns

SpecUnits == Init /\ [][NextUnits]_vars

\* the converter from microwatts to watts: the floor of r / 1,000,000
MicrowattToWatt(r) == r \div 1000000

\* the fields of get_power_stats and the files they are read from
PowerFieldFiles ==
    {<<"limit", PowerCap>>, <<"average", PowerAverage>>, <<"capability", PowerCapMax>>,
     <<"default", PowerCapDefault>>}

\* read_stat's watts for the reading r: r / 1,000,000 cut towards zero, which
\* is the converter's floor for r >= 0 and for whole numbers of watts, and
\* one more than the floor for every other r < 0
WattsAsRead(w, r) ==
    /\ (r >= 0) => (w = MicrowattToWatt(r))
    /\ (r < 0) => (w = 0 - MicrowattToWatt(0 - r))
    /\ (r < 0 /\ r % 1000000 # 0) => (w = MicrowattToWatt(r) + 1)
    /\ (r % 1000000 = 0) => (w = MicrowattToWatt(r))

EndsIn(text, suffix) ==
    /\ Len(text) >= Len(suffix)
    /\ SubSeq(text, Len(text) - Len(suffix) + 1, Len(text)) = suffix

\* C12 as stated: for h >= 0 the text of format_frequency(h) ends in "Hz",
\* with the largest unit of a power of 1000 in which the number is at least
\* 1 (the plain unit below 1000), and no unit of bytes
C12_EndsInHz ==
    (result.op = "format_frequency" /\ result.arg >= 0) =>
        /\ result.exc = ""
        /\ EndsIn(result.val.unit, <<"H", "z">>)
        /\ (result.arg < 1000) => (result.val.unit = <<"H", "z">>)
        /\ (result.arg >= 1000) => (Len(result.val.unit) = 3 /\ result.val.count >= 100)

\* C13 as stated: format_frequency of a number below zero fails with a
\* ValueError
C13_NegativeFails ==
    (result.op = "format_frequency" /\ result.arg < 0) => (result.exc = "ValueError")

\* the label files a get_temp_stats call enumerated, in the order of the
\* enumeration: they are the first files the call opened
LabelsEnumerated == SelectSeq(result.reads, LAMBDA p : IsTempLabelName(p.file))

\* the place in the enumeration of the last label file that holds the name
LastLabelOf(name) ==
    CHOOSE i \in 1..Len(LabelsEnumerated) :
        /\ Strip(fs[LabelsEnumerated[i]]) = name
        /\ \A j \in 1..Len(LabelsEnumerated) :
              Strip(fs[LabelsEnumerated[j]]) = name => j <= i

\* C14: in a result of get_temp_stats on a registered card the enumerated
\* label files are the tempN_label files of the card's hwmon directory;
\* every key is the trimmed content of one of them, no name is there twice,
\* and the value of a name is the floor of the integer in tempN_input / 1000,
\* with the N of the last enumerated label file that holds the name and in
\* the same directory.
C14_SensorValues ==
    (result.op = "get_temp_stats" /\ Registered(result.card) /\ result.exc = "") =>
        LET dir == RegistryDir(result.card)
        IN  /\ \A i \in 1..Len(LabelsEnumerated) :
                  \E n \in TempNodes : LabelsEnumerated[i] = Join(dir, TempLabel(n))
            /\ \A n \in TempNodes :
                  Exists(Join(dir, TempLabel(n))) =>
                      \E i \in 1..Len(LabelsEnumerated) :
                          LabelsEnumerated[i] = Join(dir, TempLabel(n))
            /\ \A i \in 1..Len(result.val) :
                  LET e == result.val[i]
                  IN  /\ \E k \in 1..Len(LabelsEnumerated) :
                            Strip(fs[LabelsEnumerated[k]]) = e.key
                      /\ \A k \in 1..Len(result.val) : result.val[k].key = e.key => k = i
                      /\ \E n \in TempNodes :
                            /\ LabelsEnumerated[LastLabelOf(e.key)] = Join(dir, TempLabel(n))
                            /\ e.val = IntOf(fs[Join(dir, TempInput(n))]) \div 1000

\* two label files of a directory hold the same name, temp2_label was
\* enumerated before temp1_label, and the one entry of the result has the
\* reading of temp1_input, which differs from that of temp2_input
C14_Witness ==
    /\ result.op = "get_temp_stats"
    /\ Registered(result.card)
    /\ result.exc = ""
    /\ Len(LabelsEnumerated) = 2
    /\ LabelsEnumerated[1].file = TempLabel(<<"temp", "2">>)
    /\ LabelsEnumerated[2].file = TempLabel(<<"temp", "1">>)
    /\ Strip(fs[LabelsEnumerated[1]]) = Strip(fs[LabelsEnumerated[2]])
    /\ Len(result.val) = 1
    /\ result.val[1].val =
          IntOf(fs[Join(RegistryDir(result.card), TempInput(<<"temp", "1">>))]) \div 1000
    /\ result.val[1].val #
          IntOf(fs[Join(RegistryDir(result.card), TempInput(<<"temp", "2">>))]) \div 1000

(***************************************************************************)
(* A sampler call read by read.  get_power_stats and get_core_stats open   *)
(* their four files one after the other, get_temp_stats opens the label    *)
(* files and then one value file after the other; nothing in the code      *)
(* holds the driver off between two reads.                                 *)
(***************************************************************************)
\* lines 278-282: one sensor's value file, read and converted
TempField(temp_file) ==
    LET r == IntOfRead(ReadStat(temp_file, ""))
    IN  IF r.exc # "" THEN r ELSE Returned(r.val \div 1000, r.reads)

\* the fields of a sampler call in the order they are read, each with what
\* reading it now gives; files is the temp_files dict of get_temp_stats
FieldsNow(op, card, files) ==
    CASE op = "get_power_stats" -> PowerFields(DictGet(AMDGPU_CARDS, card))
      [] op = "get_core_stats" -> CoreFields(card)
      [] op = "get_temp_stats" ->
            [i \in 1..Len(files) |-> [key |-> files[i].key, out |-> TempField(files[i].val)]]

\* the converted contents the files of the call hold together at this
\* instant, when they can all be read
InstantNow(op, card, files) ==
    LET now == DictDisplay(FieldsNow(op, card, files), EmptyDict, <<>>)
    IN  IF now.exc = "" THEN {now.val} ELSE {}

\* the next sample of a reading
NextSample(text) == (IF Head(text) = "9" THEN <<"8">> ELSE <<"9">>) \o Tail(text)

SamplingFrame == UNCHANGED <<fsChanges, pc, exit, hwmon_names, AMDGPU_CARDS, held, scriptVars,
                             widgetVars>>

\* the call begins: the check of the card and, for get_temp_stats, lines
\* 265-275, the enumeration and the reading of the label files
BeginSampler ==
    /\ CanCall
    /\ sampling.op = ""
    /\ \E op \in {"get_power_stats", "get_core_stats", "get_temp_stats"}, card \in CardArgs :
          IF ~DictHas(AMDGPU_CARDS, card)
          THEN /\ result' = CallOf(op, card, "", InvalidCard(card))
               /\ UNCHANGED <<fs, sampling>>
          ELSE \E labels \in (IF op = "get_temp_stats"
                              THEN TempLabelOrders(DictGet(AMDGPU_CARDS, card))
                              ELSE {<<>>}) :
                  LET files == TempFilesLoop(labels, DictGet(AMDGPU_CARDS, card), EmptyDict)
                  IN  /\ sampling' = [op |-> op, card |-> card, fields |-> 0, files |-> files,
                                      acc |-> EmptyDict, reads |-> labels,
                                      instants |-> InstantNow(op, card, files)]
                      /\ fs' = AfterOpens(labels)
                      /\ UNCHANGED result
    /\ SamplingFrame

\* the next field of the call is read and converted; an exception ends the
\* call
ReadNextField ==
    /\ sampling.op # ""
    /\ sampling.fields < Len(FieldsNow(sampling.op, sampling.card, sampling.files))
    /\ LET it == FieldsNow(sampling.op, sampling.card, sampling.files)[sampling.fields + 1]
       IN  /\ fs' = AfterOpens(it.out.reads)
           /\ IF it.out.exc # ""
              THEN /\ result' = CallOf(sampling.op, sampling.card, "",
                                       Raised(it.out.exc, it.out.msg,
                                              sampling.reads \o it.out.reads))
                   /\ sampling' = NotSampling
              ELSE /\ sampling' =
                         [sampling EXCEPT
                            !.fields = @ + 1,
                            !.acc = DictSet(@, it.key, it.out.val),
                            !.reads = @ \o it.out.reads,
                            !.instants = @ \cup InstantNow(sampling.op, sampling.card,
                                                           sampling.files)]
                   /\ UNCHANGED result
    /\ SamplingFrame

\* every field is read: the call returns the dict
SamplerReturns ==
    /\ sampling.op # ""
    /\ sampling.fields = Len(FieldsNow(sampling.op, sampling.card, sampling.files))
    /\ result' = CallOf(sampling.op, sampling.card, "", Returned(sampling.acc, sampling.reads))
    /\ sampling' = [NotSampling EXCEPT
                      !.instants = sampling.instants
                                     \cup InstantNow(sampling.op, sampling.card, sampling.files)]
    /\ fs' = fs
    /\ SamplingFrame

\* the driver publishes the next sample of a device: every reading of its
\* hwmon directory and its busy file.  It does so whenever it has one, also
\* between two reads of a call.
DriverRefreshes ==
    /\ pc = "imported"
    /\ fsChanges < MaxFsChanges
    /\ result.op = NoCall.op
    /\ \E i \in 1..Len(AMDGPU_CARDS) :
          LET refreshed(p) ==
                  /\ Exists(p)
                  /\ IsReading(p)
                  /\ \/ p.dir = AMDGPU_CARDS[i].val
                     \/ p = Join(DeviceDir(AMDGPU_CARDS[i].key), GpuBusyPercent)
          IN  /\ \E p \in AllPaths : refreshed(p)
              /\ fs' = [p \in AllPaths |-> IF refreshed(p) THEN NextSample(fs[p]) ELSE fs[p]]
    /\ fsChanges' = fsChanges + 1
    /\ sampling' = IF sampling.op = "" THEN sampling
                   ELSE [sampling EXCEPT
                           !.instants = @ \cup InstantNow(sampling.op, sampling.card,
                                                          sampling.files)]
    /\ UNCHANGED <<pc, exit, hwmon_names, AMDGPU_CARDS, result, held, scriptVars, widgetVars>>

\* a caller of the samplers and a driver that goes on sampling
NextSampling ==
    \/ ImportUtils
    \/ DriverRefreshes
    \/ DeviceRemoved
    \/ BeginSampler
    \/ ReadNextField
    \/ SamplerReturns
    \/ CallReturns

SpecSampling == Init /\ [][NextSampling]_vars

\* C15 as stated: the dict a sampler returns is what its files held
\* together, converted, at one instant between the begin and the end of the
\* call
C15_SnapshotOfOneInstant ==
    (result.op \in SamplerOps /\ result.exc = "" /\ Registered(result.card)) =>
        result.val \in sampling.instants

====
